---- MODULE Spec2Model ----
(***************************************************************************)
(* Model of server.py: the request router of CustomHTTPRequestHandler, its *)
(* page renderers, the startup pre-generation of the QR artifacts and the  *)
(* process life cycle of main().                                           *)
(*                                                                         *)
(* Strings the code slices (the request target, the payload texts) are     *)
(* sequences of one-character strings; names, colours and messages, which  *)
(* the code only copies, are TLA+ strings.                                 *)
(***************************************************************************)
EXTENDS Integers, Sequences, FiniteSets, TLC

\* Longest preset sequence a data file of the model holds.
MaxPresets == 2

\* Stand-in for the capacity of the largest QR symbol: a payload of more
\* characters makes qrcode's make(fit=True) raise.
QRCapacity == 4

\* qr["text"][:30] in the selector's dropdown.
PreviewLen == 30

----------------------------------------------------------------------------
\* Python string primitives, on sequences of characters.

AsciiDigits == {"0", "1", "2", "3", "4", "5", "6", "7", "8", "9"}

\* Characters for which str.isdigit() is true but which int() rejects: the
\* request target is decoded as iso-8859-1, so the superscript digits U+00B2,
\* U+00B3 and U+00B9 can occur in self.path.
SuperscriptDigits == {"^2", "^3", "^1"}

DigitValue(c) ==
    CASE c = "0" -> 0 [] c = "1" -> 1 [] c = "2" -> 2 [] c = "3" -> 3
      [] c = "4" -> 4 [] c = "5" -> 5 [] c = "6" -> 6 [] c = "7" -> 7
      [] c = "8" -> 8 [] c = "9" -> 9

Range(s) == {s[k] : k \in DOMAIN s}

startswith(s, prefix) ==
    /\ Len(s) >= Len(prefix)
    /\ SubSeq(s, 1, Len(prefix)) = prefix

\* Position of the first occurrence of character c in s, 0 when there is none.
find(s, c) ==
    IF c \in Range(s) THEN CHOOSE k \in DOMAIN s : s[k] = c /\ \A j \in 1..(k - 1) : s[j] # c
    ELSE 0

\* s.split(c): always at least one part.
RECURSIVE split(_, _)
split(s, c) ==
    LET k == find(s, c) IN
    IF k = 0 THEN <<s>>
    ELSE <<SubSeq(s, 1, k - 1)>> \o split(SubSeq(s, k + 1, Len(s)), c)

\* str.isdigit(): non-empty and every character a digit character.
isdigit(s) == Len(s) > 0 /\ Range(s) \subseteq (AsciiDigits \cup SuperscriptDigits)

\* int(s) succeeds on decimal digits only.
IntParses(s) == Len(s) > 0 /\ Range(s) \subseteq AsciiDigits

RECURSIVE int(_)
int(s) ==
    IF Len(s) = 0 THEN 0
    ELSE int(SubSeq(s, 1, Len(s) - 1)) * 10 + DigitValue(s[Len(s)])

\* s[:n]
Prefix(s, n) == SubSeq(s, 1, IF Len(s) < n THEN Len(s) ELSE n)

----------------------------------------------------------------------------
\* urllib.parse, as far as the handler uses it.

\* urlparse(path).query: what follows the first "?" (no "#" in the targets of
\* the model).
urlparse_query(path) ==
    LET k == find(path, "?") IN
    IF k = 0 THEN <<>> ELSE SubSeq(path, k + 1, Len(path))

\* The percent escapes that occur in the targets of the model.
Unhex(h1, h2) ==
    CASE h1 = "4" /\ h2 = "1" -> <<"A">>
      [] h1 = "2" /\ h2 = "0" -> <<" ">>
      [] OTHER -> <<"%", h1, h2>>

\* unquote(s.replace("+", " "))
RECURSIVE unquote_plus(_)
unquote_plus(s) ==
    IF Len(s) = 0 THEN <<>>
    ELSE IF s[1] = "+" THEN <<" ">> \o unquote_plus(Tail(s))
    ELSE IF s[1] = "%" /\ Len(s) >= 3
         THEN Unhex(s[2], s[3]) \o unquote_plus(SubSeq(s, 4, Len(s)))
    ELSE <<s[1]>> \o unquote_plus(Tail(s))

\* parse_qs(query), as the list of (name, value) pairs in order: pairs without
\* "=" and pairs with a blank value are dropped (keep_blank_values is False).
RECURSIVE PairsOf(_)
PairsOf(fields) ==
    IF Len(fields) = 0 THEN <<>>
    ELSE LET nv == fields[1]
             k  == find(nv, "=")
             rest == PairsOf(Tail(fields))
         IN IF k = 0 \/ k = Len(nv) THEN rest
            ELSE <<[name  |-> unquote_plus(SubSeq(nv, 1, k - 1)),
                    value |-> unquote_plus(SubSeq(nv, k + 1, Len(nv)))]>> \o rest

parse_qs(query) == IF Len(query) = 0 THEN <<>> ELSE PairsOf(split(query, "&"))

\* params.get(key, [""])[0]
params_get(params, key) ==
    LET hits == {k \in DOMAIN params : params[k].name = key} IN
    IF hits = {} THEN <<>>
    ELSE params[CHOOSE k \in hits : \A j \in hits : k <= j].value

----------------------------------------------------------------------------
\* The preset data file qr-data.json and the artifact directory qr-images.

AllKeys == {"name", "text", "color"}

\* Preset entries of the model. An entry is a JSON object: keys is the set of
\* fields it has, and a field that is not in keys is never read.
Red     == [keys |-> AllKeys, name |-> "Red", text |-> <<"R", "E", "D">>, color |-> "#ff0000"]
NoText  == [keys |-> {"name", "color"}, name |-> "Green", text |-> <<>>, color |-> "#00ff00"]
NoName  == [keys |-> {"text", "color"}, name |-> "", text |-> <<"R", "E", "D">>, color |-> "#ffff00"]
NoColor == [keys |-> {"name", "text"}, name |-> "Blue", text |-> <<"B", "L", "U", "E">>, color |-> ""]
Huge    == [keys |-> AllKeys, name |-> "Huge", text |-> <<"T", "O", "O", "B", "I", "G">>, color |-> "#000000"]


\* A string holding the lone surrogate U+D800, as json.load returns it for the
\* JSON text "\ud800".
LoneSurrogate == "<U+D800>"

\* An entry whose name is that string.
Garbled == [keys |-> AllKeys, name |-> LoneSurrogate, text |-> <<"R", "E", "D">>, color |-> "#ff00ff"]

Entries == {Red, NoText, NoName, NoColor, Huge, Garbled}

\* str.encode() to UTF-8, which the page writers and print() apply: it raises
\* UnicodeEncodeError on a lone surrogate.
Utf8Encodes(s) == s # LoneSurrogate

SeqsUpTo(S, n) == UNION {[1..k -> S] : k \in 0..n}

\* What is on disk under the name qr-data.json.
\*   missing : no such file;  corrupt : not JSON;
\*   json    : a JSON object, with or without the key "qrCodes", with or
\*             without other keys.
Missing     == [kind |-> "missing", hasQrCodes |-> FALSE, otherKeys |-> FALSE, qrCodes |-> <<>>]
Corrupt     == [kind |-> "corrupt", hasQrCodes |-> FALSE, otherKeys |-> FALSE, qrCodes |-> <<>>]
EmptyObject == [kind |-> "json", hasQrCodes |-> FALSE, otherKeys |-> FALSE, qrCodes |-> <<>>]
NoKeyObject == [kind |-> "json", hasQrCodes |-> FALSE, otherKeys |-> TRUE, qrCodes |-> <<>>]
Json(presets) == [kind |-> "json", hasQrCodes |-> TRUE, otherKeys |-> FALSE, qrCodes |-> presets]

DataFiles ==
    {Missing, Corrupt, EmptyObject, NoKeyObject}
        \cup {Json(s) : s \in SeqsUpTo(Entries, MaxPresets)}

\* Python's None, as load_qr_data returns it.
None == [kind |-> "none", hasQrCodes |-> FALSE, otherKeys |-> FALSE, qrCodes |-> <<>>]

\* load_qr_data: the parsed file, None when open() or json.load() raises.
load_qr_data(file) == IF file.kind = "json" THEN file ELSE None

\* "not qr_data": None and the empty object are falsy.
Falsy(qr_data) == qr_data.kind = "none" \/ (~qr_data.hasQrCodes /\ ~qr_data.otherKeys)

\* The artifact directory: whether it exists, and its files qr_<index>.png.
\* text is the payload a file encodes; stale marks a file written by an
\* earlier run of the process.
NoDir    == [exists |-> FALSE, files |-> {}]
EmptyDir == [exists |-> TRUE, files |-> {}]

Artifact(i, t) == [index |-> i, text |-> t, stale |-> FALSE]

\* os.path.exists("qr-images/qr_<index>.png")
path_exists(dir, index) == dir.exists /\ \E f \in dir.files : f.index = index

\* The encoding capability: qrcode raises DataOverflowError on a payload that
\* fits no symbol version.
Encodable(text) == Len(text) <= QRCapacity

----------------------------------------------------------------------------
\* Responses.

CorsHeaders ==
    { <<"Access-Control-Allow-Origin", "*">>,
      <<"Access-Control-Allow-Methods", "GET, POST, OPTIONS">>,
      <<"Access-Control-Allow-Headers", "Content-Type">> }

\* end_headers with the Access-Control-Allow-Methods line left out.
end_headers_NoMethods(headers) ==
    headers \cup (CorsHeaders \ {<<"Access-Control-Allow-Methods", "GET, POST, OPTIONS">>})

\* end_headers: the three send_header calls, then the base class flushes the
\* header buffer.
end_headers(headers) == headers \cup CorsHeaders

NoImage == [kind |-> "none", index |-> 0, payload |-> <<>>]
\* f"/qr-images/qr_{index}.png"
ImageUrl(index) == [kind |-> "url", index |-> index, payload |-> <<>>]
\* f"data:image/png;base64,{...}" of the image that encodes text
ImageData(text) == [kind |-> "data", index |-> 0, payload |-> text]

EmptyBody ==
    [kind |-> "none", name |-> "", text |-> <<>>, color |-> "", img |-> NoImage,
     options |-> <<>>, cards |-> <<>>]

Response(status, message, headers, body) ==
    [status |-> status, message |-> message, headers |-> headers, body |-> body]

\* send_error(code, message): status line, Content-Type, end_headers(), and a
\* short error document.
send_error(code, message) ==
    Response(code, message,
             end_headers({<<"Content-Type", "text/html;charset=utf-8">>}),
             [EmptyBody EXCEPT !.kind = "error"])

\* send_response(200); send_header("Content-type", "text/html"); end_headers();
\* wfile.write(html)
send_page(body) ==
    Response(200, "OK", end_headers({<<"Content-type", "text/html">>}), body)

\* html.encode() of a page: every string the template interpolates is encoded.
HtmlEncodes(body) ==
    /\ Utf8Encodes(body.name) /\ Utf8Encodes(body.color)
    /\ \A k \in DOMAIN body.options : Utf8Encodes(body.options[k].name)
    /\ \A k \in DOMAIN body.cards :
          Utf8Encodes(body.cards[k].name) /\ Utf8Encodes(body.cards[k].color)

\* The tail of a page handler inside its try block: send_response(200),
\* send_header, end_headers(), then wfile.write(html.encode()). end_headers()
\* has put the status line and the headers on the wire when html.encode()
\* raises; the except clause of the handler then calls send_error with message.
write_page(body, message) ==
    IF HtmlEncodes(body)
    THEN <<send_page(body)>>
    ELSE <<send_page(EmptyBody), send_error(500, message)>>

----------------------------------------------------------------------------
\* The page renderers.

NoPath == [given |-> FALSE, index |-> 0]
\* f"qr-images/qr_{index}.png"
ImagePath(index) == [given |-> TRUE, index |-> index]

\* The page template without its {text} placeholder.
QrPage_NoText(text, name, color, img) ==
    [EmptyBody EXCEPT !.kind = "qr_page", !.name = name, !.color = color, !.img = img]

QrPage(text, name, color, img) ==
    [EmptyBody EXCEPT !.kind = "qr_page", !.name = name, !.text = text,
                      !.color = color, !.img = img]

\* generate_qr_page that never looks for the pre-generated file.
generate_qr_page_AlwaysInline(text, name, color, qr_image_path, dir) ==
    IF Encodable(text)
    THEN write_page(QrPage(text, name, color, ImageData(text)), "QR generation failed")
    ELSE <<send_error(500, "QR generation failed")>>

\* generate_qr_page: the pre-generated file when a path was given and the file
\* exists, else the image encoded on demand; an exception of the encoder, or
\* of writing the page, is answered with 500.
generate_qr_page(text, name, color, qr_image_path, dir) ==
    IF qr_image_path.given /\ path_exists(dir, qr_image_path.index)
    THEN write_page(QrPage(text, name, color, ImageUrl(qr_image_path.index)), "QR generation failed")
    ELSE IF Encodable(text)
         THEN write_page(QrPage(text, name, color, ImageData(text)), "QR generation failed")
         ELSE <<send_error(500, "QR generation failed")>>

\* The dropdown option of preset i: its name, text[:30] and the "..." marker.
Option(i, qr) ==
    [value |-> i, name |-> qr.name, preview |-> Prefix(qr.text, PreviewLen),
     ellipsis |-> Len(qr.text) > PreviewLen]

Card(i, qr) == [index |-> i, name |-> qr.name, text |-> qr.text, color |-> qr.color]

\* generate_qr_selector_html raises KeyError when the object has no "qrCodes"
\* or an entry lacks one of the three fields.
SelectorRaises(qr_data) ==
    \/ ~qr_data.hasQrCodes
    \/ \E k \in DOMAIN qr_data.qrCodes : qr_data.qrCodes[k].keys # AllKeys

\* generate_qr_selector_html: one option and one card per preset, in order
\* (enumerate counts from 0).
generate_qr_selector_html(qr_data) ==
    [EmptyBody EXCEPT
        !.kind = "selector",
        !.options = [k \in DOMAIN qr_data.qrCodes |-> Option(k - 1, qr_data.qrCodes[k])],
        !.cards = [k \in DOMAIN qr_data.qrCodes |-> Card(k - 1, qr_data.qrCodes[k])]]

\* serve_qr_generator_page
serve_qr_generator_page(file) ==
    LET qr_data == load_qr_data(file) IN
    IF Falsy(qr_data) THEN <<send_error(500, "Could not load QR data")>>
    ELSE IF SelectorRaises(qr_data) THEN <<send_error(500, "Generator page error")>>
    ELSE write_page(generate_qr_selector_html(qr_data), "Generator page error")

----------------------------------------------------------------------------
\* The router.

Custom == <<"c", "u", "s", "t", "o", "m">>
TextKey == <<"t", "e", "x", "t">>

\* path_parts[2].split("?")[0]
qr_type_of(path) == split(split(path, "/")[3], "?")[1]

\* qr_data["qrCodes"][index], index counted from 0.
PresetAt(qr_data, index) == qr_data.qrCodes[index + 1]

\* The custom branch handing the renderer the artifact path of preset 0.
handle_custom_WithPath(path, dir) ==
    LET text == params_get(parse_qs(urlparse_query(path)), TextKey) IN
    IF Len(text) = 0 THEN <<send_error(400, "Missing text parameter")>>
    ELSE generate_qr_page(text, "Custom QR Code", "#666666", ImagePath(0), dir)

\* The custom branch of handle_qr_request.
handle_custom(path, dir) ==
    LET text == params_get(parse_qs(urlparse_query(path)), TextKey) IN
    IF Len(text) = 0 THEN <<send_error(400, "Missing text parameter")>>
    ELSE generate_qr_page(text, "Custom QR Code", "#666666", NoPath, dir)

\* The preset branch of handle_qr_request, qr_type.isdigit() being true.
handle_index(qr_type, file, dir) ==
    IF ~IntParses(qr_type) THEN <<send_error(500, "QR generation error")>>
    ELSE
      LET index   == int(qr_type)
          qr_data == load_qr_data(file)
      IN IF Falsy(qr_data) THEN <<send_error(404, "QR code not found")>>
         ELSE IF ~qr_data.hasQrCodes THEN <<send_error(500, "QR generation error")>>
         ELSE IF index >= Len(qr_data.qrCodes) THEN <<send_error(404, "QR code not found")>>
         ELSE LET qr == PresetAt(qr_data, index) IN
              IF qr.keys # AllKeys THEN <<send_error(500, "QR generation error")>>
              ELSE generate_qr_page(qr.text, qr.name, qr.color, ImagePath(index), dir)

\* handle_qr_request
handle_qr_request(path, available, file, dir) ==
    IF ~available THEN <<send_error(500, "QR code library not installed")>>
    ELSE IF Len(split(path, "/")) < 3 THEN <<send_error(400, "Invalid QR request")>>
    ELSE LET qr_type == qr_type_of(path) IN
         IF qr_type = Custom THEN handle_custom(path, dir)
         ELSE IF isdigit(qr_type) THEN handle_index(qr_type, file, dir)
         ELSE <<send_error(400, "Invalid QR request")>>

\* SimpleHTTPRequestHandler.do_GET of the base class, for the targets of the
\* model: "/" is the directory of index.html, and no other target of the model
\* names a file.
StaticServe(path) ==
    IF split(path, "?")[1] = <<"/">>
    THEN <<Response(200, "OK", end_headers({<<"Content-type", "text/html">>}),
                    [EmptyBody EXCEPT !.kind = "file"])>>
    ELSE <<send_error(404, "File not found")>>

QrPrefix == <<"/", "q", "r", "/">>
GeneratorPath == <<"/", "g", "e", "n", "e", "r", "a", "t", "o", "r">>

\* The branch do_GET takes.
Route(path) ==
    IF startswith(path, QrPrefix) THEN "handle_qr_request"
    ELSE IF path = GeneratorPath \/ path = GeneratorPath \o <<"/">>
         THEN "serve_qr_generator_page"
    ELSE "super.do_GET"

\* do_GET: the handler that takes the request, the target it is given and the
\* responses it sends, in order.
do_GET(path, available, file, dir) ==
    LET handler == Route(path) IN
    [handler  |-> handler,
     target   |-> path,
     responses |->
        IF handler = "handle_qr_request" THEN handle_qr_request(path, available, file, dir)
        ELSE IF handler = "serve_qr_generator_page" THEN serve_qr_generator_page(file)
        ELSE StaticServe(path)]

----------------------------------------------------------------------------
\* The request targets of the model.

qX        == <<"?", "x", "=", "1">>
qTextHi   == <<"?", "t", "e", "x", "t", "=", "h", "i">>
qTextNone == <<"?", "t", "e", "x", "t", "=">>
qTextPlus == <<"?", "t", "e", "x", "t", "=", "a", "+", "b">>
qTextPct  == <<"?", "t", "e", "x", "t", "=", "%", "4", "1">>
qXTextHi  == <<"?", "x", "=", "1", "&", "t", "e", "x", "t", "=", "h", "i">>
qTextLong == <<"?", "t", "e", "x", "t", "=", "t", "o", "o", "l", "o", "n", "g">>
SubPath   == <<"/", "x">>

IndexSegments == {<<"0">>, <<"1">>, <<"2">>, <<"3">>, <<"0", "1">>, <<"^2">>}
OtherSegments == {<<>>, <<"x">>, <<"1", "x">>}

Paths ==
    {QrPrefix \o seg \o t : seg \in IndexSegments, t \in {<<>>, qX, SubPath}}
    \cup {QrPrefix \o Custom \o t :
            t \in {<<>>, qX, qTextHi, qTextNone, qTextPlus, qTextPct, qXTextHi,
                   qTextLong, SubPath \o qTextHi}}
    \cup {QrPrefix \o seg \o t : seg \in OtherSegments, t \in {<<>>, qTextHi}}
    \cup {GeneratorPath \o t : t \in {<<>>, <<"/">>, qX, <<"/">> \o qX, <<"x">>}}
    \cup {<<"/">>, <<"/">> \o qX, <<"/", "x">>, <<"/", "q", "r">>, <<"/", "q", "r">> \o qX}

----------------------------------------------------------------------------
\* The process: main(), generate_all_qr_images() and the listener.

VARIABLES
    pc,            \* Initializing, PreGeneratingArtifacts, Binding, Listening, Stopped, Crashed
    exit,          \* why the process ended: none, missing_files, bind_failed, interrupt
    QR_AVAILABLE,  \* whether "import qrcode" succeeded
    staticFiles,   \* which of index.html, style.css, script.js are on disk
    dataFile,      \* qr-data.json on disk
    outDir,        \* the directory qr-images on disk
    hadArtifacts,  \* whether qr-images held a file when this process started
    step,          \* position in generate_all_qr_images: none, start, loop, returned
    qr_data,       \* generate_all_qr_images: the loaded data
    i,             \* generate_all_qr_images: the loop index
    generated,     \* indices counted in generated_count
    attempted,     \* indices whose loop body was entered
    outcome,       \* how generate_all_qr_images ended
    request,       \* the target of the request being handled, <<>> when idle
    handler,       \* the handler do_GET gave it to
    responses      \* the responses sent for it

vars == <<pc, exit, QR_AVAILABLE, staticFiles, dataFile, outDir, hadArtifacts, step,
          qr_data, i, generated, attempted, outcome, request, handler, responses>>

procVars == <<step, qr_data, i, generated, attempted, outcome>>
reqVars  == <<request, handler, responses>>
diskVars == <<staticFiles, dataFile, outDir, hadArtifacts>>

RequiredStatic == {"index.html", "style.css", "script.js"}

Init ==
    /\ pc = "Initializing"
    /\ exit = "none"
    /\ QR_AVAILABLE \in BOOLEAN
    /\ staticFiles \in SUBSET RequiredStatic
    /\ dataFile \in DataFiles
    /\ outDir = NoDir
    /\ hadArtifacts = FALSE
    /\ step = "none"
    /\ qr_data = None
    /\ i = 0
    /\ generated = {}
    /\ attempted = {}
    /\ outcome = "none"
    /\ request = <<>>
    /\ handler = "none"
    /\ responses = <<>>

\* main, lines 497-504: the required files.
missing_files ==
    (RequiredStatic \ staticFiles)
        \cup (IF dataFile.kind = "missing" THEN {"qr-data.json"} ELSE {})

CheckRequiredFiles ==
    /\ pc = "Initializing"
    /\ IF missing_files # {}
       THEN /\ pc' = "Crashed"
            /\ exit' = "missing_files"
            /\ step' = step
       ELSE /\ pc' = "PreGeneratingArtifacts"
            /\ exit' = exit
            /\ step' = "start"
    /\ UNCHANGED <<QR_AVAILABLE, diskVars, qr_data, i, generated, attempted, outcome, reqVars>>

\* generate_all_qr_images, lines 432-434.
PreGenUnavailable ==
    /\ pc = "PreGeneratingArtifacts" /\ step = "start"
    /\ ~QR_AVAILABLE
    /\ step' = "returned"
    /\ outcome' = "library_unavailable"
    /\ UNCHANGED <<pc, exit, QR_AVAILABLE, diskVars, qr_data, i, generated, attempted, reqVars>>

\* Lines 438-439 when shutil.rmtree raises: some of the files may be gone, the
\* directory is still there, and the outer handler returns False.
PreGenCleanupFails ==
    /\ pc = "PreGeneratingArtifacts" /\ step = "start"
    /\ QR_AVAILABLE
    /\ outDir.exists
    /\ \E left \in SUBSET outDir.files : outDir' = [exists |-> TRUE, files |-> left]
    /\ step' = "returned"
    /\ outcome' = "cleanup_failed"
    /\ UNCHANGED <<pc, exit, QR_AVAILABLE, staticFiles, dataFile, hadArtifacts,
                   qr_data, i, generated, attempted, reqVars>>

\* makedirs(exist_ok=True) without the rmtree before it.
CleanDirectory_NoRmtree(dir) == [dir EXCEPT !.exists = TRUE]

\* Lines 438-443: the directory after rmtree and makedirs.
CleanDirectory(dir) == EmptyDir

\* Lines 438-450: clean, recreate, load the data and enter the loop; a data
\* file that does not parse or has no "qrCodes" ends the function in the
\* outer handler.
PreGenPrepare ==
    /\ pc = "PreGeneratingArtifacts" /\ step = "start"
    /\ QR_AVAILABLE
    /\ outDir' = CleanDirectory(outDir)
    /\ IF dataFile.kind = "json" /\ dataFile.hasQrCodes
       THEN /\ qr_data' = dataFile
            /\ step' = "loop"
            /\ outcome' = outcome
       ELSE /\ qr_data' = load_qr_data(dataFile)
            /\ step' = "returned"
            /\ outcome' = "data_unloadable"
    /\ i' = 0
    /\ UNCHANGED <<pc, exit, QR_AVAILABLE, staticFiles, dataFile, hadArtifacts,
                   generated, attempted, reqVars>>

\* The body of the loop for one entry, lines 451-473.
\*   saved   : img.save wrote the file
\*   counted : generated_count was incremented
\*   escaped : the except clause itself raised (it prints qr['name'], which
\*             raises KeyError without the field and UnicodeEncodeError when
\*             the name cannot be written to the console)
GenerateOne(qr) ==
    LET encoded == "text" \in qr.keys /\ Encodable(qr.text)
        named   == "name" \in qr.keys /\ Utf8Encodes(qr.name)
    IN [saved |-> encoded, counted |-> encoded /\ named, escaped |-> ~named]

PreGenEntry ==
    /\ pc = "PreGeneratingArtifacts" /\ step = "loop"
    /\ i < Len(qr_data.qrCodes)
    /\ LET qr == PresetAt(qr_data, i)
           r  == GenerateOne(qr)
       IN /\ attempted' = attempted \cup {i}
          /\ outDir' = IF r.saved
                       THEN [outDir EXCEPT !.files = @ \cup {Artifact(i, qr.text)}]
                       ELSE outDir
          /\ generated' = IF r.counted THEN generated \cup {i} ELSE generated
          /\ IF r.escaped
             THEN step' = "returned" /\ outcome' = "aborted" /\ i' = i
             ELSE step' = step /\ outcome' = outcome /\ i' = i + 1
    /\ UNCHANGED <<pc, exit, QR_AVAILABLE, staticFiles, dataFile, hadArtifacts,
                   qr_data, reqVars>>

\* Lines 475-476.
PreGenFinish ==
    /\ pc = "PreGeneratingArtifacts" /\ step = "loop"
    /\ i = Len(qr_data.qrCodes)
    /\ step' = "returned"
    /\ outcome' = "completed"
    /\ UNCHANGED <<pc, exit, QR_AVAILABLE, diskVars, qr_data, i, generated, attempted, reqVars>>

\* main giving up when generate_all_qr_images returns False.
AfterPreGeneration_ExitOnFalse(result) == IF result THEN "Binding" ELSE "Crashed"

\* main, line 507: the return value of generate_all_qr_images is not read.
AfterPreGeneration(result) == "Binding"

PreGenReturn ==
    /\ pc = "PreGeneratingArtifacts" /\ step = "returned"
    /\ pc' = AfterPreGeneration(outcome = "completed")
    /\ exit' = exit
    /\ step' = "none"
    /\ qr_data' = None
    /\ i' = 0
    /\ UNCHANGED <<QR_AVAILABLE, diskVars, generated, attempted, outcome, reqVars>>

\* main, lines 510-511 and 542-549: the listener binds, or OSError and exit 1.
Bind ==
    /\ pc = "Binding"
    /\ \E ok \in BOOLEAN :
         IF ok THEN pc' = "Listening" /\ exit' = exit
         ELSE pc' = "Crashed" /\ exit' = "bind_failed"
    /\ UNCHANGED <<QR_AVAILABLE, diskVars, procVars, reqVars>>

\* serve_forever: one request, handled to completion.
HandleRequest ==
    /\ pc = "Listening" /\ request = <<>>
    /\ \E path \in Paths :
         LET r == do_GET(path, QR_AVAILABLE, dataFile, outDir) IN
         /\ request' = path
         /\ handler' = r.handler
         /\ responses' = r.responses
    /\ UNCHANGED <<pc, exit, QR_AVAILABLE, diskVars, procVars>>

\* The connection is closed and the listener waits for the next one.
FinishRequest ==
    /\ pc = "Listening" /\ request # <<>>
    /\ request' = <<>>
    /\ handler' = "none"
    /\ responses' = <<>>
    /\ UNCHANGED <<pc, exit, QR_AVAILABLE, diskVars, procVars>>

\* Someone removes or damages qr-data.json while the server runs.
DataFileLost ==
    /\ pc = "Listening" /\ request = <<>>
    /\ dataFile.kind = "json"
    /\ dataFile' \in {Missing, Corrupt}
    /\ UNCHANGED <<pc, exit, QR_AVAILABLE, staticFiles, outDir, hadArtifacts, procVars, reqVars>>

\* main, lines 550-552: Ctrl+C.
Interrupt ==
    /\ pc = "Listening" /\ request = <<>>
    /\ pc' = "Stopped"
    /\ exit' = "interrupt"
    /\ UNCHANGED <<QR_AVAILABLE, diskVars, procVars, reqVars>>

\* The files of the ended process become the leftovers of the next one.
Leftover(dir) == [dir EXCEPT !.files = {[f EXCEPT !.stale = TRUE] : f \in @}]

\* server.py is started again, lines 554-555, on the same working directory,
\* with whatever data file and library installation it now finds.
Relaunch ==
    /\ pc \in {"Stopped", "Crashed"}
    /\ pc' = "Initializing"
    /\ exit' = "none"
    /\ QR_AVAILABLE' \in BOOLEAN
    /\ dataFile' \in DataFiles
    /\ outDir' = Leftover(outDir)
    /\ hadArtifacts' = (outDir.files # {})
    /\ step' = "none"
    /\ qr_data' = None
    /\ i' = 0
    /\ generated' = {}
    /\ attempted' = {}
    /\ outcome' = "none"
    /\ UNCHANGED <<staticFiles, reqVars>>

Next ==
    \/ CheckRequiredFiles
    \/ PreGenUnavailable
    \/ PreGenCleanupFails
    \/ PreGenPrepare
    \/ PreGenEntry
    \/ PreGenFinish
    \/ PreGenReturn
    \/ Bind
    \/ HandleRequest
    \/ FinishRequest
    \/ DataFileLost
    \/ Interrupt
    \/ Relaunch

Spec == Init /\ [][Next]_vars

----------------------------------------------------------------------------
\* Vocabulary of the properties.

Handled == request # <<>>
resp == responses[1]

IsQrRequest == Handled /\ startswith(request, QrPrefix)

\* The target after "/qr/", with any query string stripped.
Remainder == split(SubSeq(request, Len(QrPrefix) + 1, Len(request)), "?")[1]

\* The target with any query string stripped.
PathOnly == split(request, "?")[1]

\* The data file as a request reads it, and its preset count.
Loaded == dataFile.kind = "json" /\ dataFile.hasQrCodes
PresetCount == Len(dataFile.qrCodes)

\* GET /qr/<i> for a valid index i of the data file.
IsPresetRequest ==
    /\ IsQrRequest
    /\ IntParses(Remainder)
    /\ Loaded
    /\ int(Remainder) < PresetCount

RequestedPreset == PresetAt(dataFile, int(Remainder))

ShowsPreset(body, qr) ==
    body.kind = "qr_page" /\ body.name = qr.name /\ body.text = qr.text

\* The strings of a preset that its page interpolates can be encoded as UTF-8.
PresetEncodes(qr) == Utf8Encodes(qr.name) /\ Utf8Encodes(qr.color)

\* The request got one response, a 200.
Served == Len(responses) = 1 /\ resp.status = 200

\* The request got the status line and headers of a 200 without a page, and
\* then a 500 response.
CutShort ==
    /\ Len(responses) = 2
    /\ resp.status = 200 /\ resp.body = EmptyBody
    /\ responses[2].status = 500

\* The value of the query parameter "text" of the request.
TextParameter == params_get(parse_qs(urlparse_query(request)), TextKey)

----------------------------------------------------------------------------
\* C1 as the specification states it: every GET /qr/i with 0 <= i < N is
\* answered 200 with a page showing preset i's name and text.
C1_AsStated ==
    IsPresetRequest =>
        resp.status = 200 /\ ShowsPreset(resp.body, RequestedPreset)

\* C1: GET /qr/i with 0 <= i < N is answered 200 with a page showing preset
\* i's name and text when the encoding library is installed, preset i has its
\* name, text and color fields, its artifact exists or its text fits a QR
\* symbol, and its strings can be encoded as UTF-8. When one of the first
\* three conditions fails it is answered 500; when only the last one fails,
\* the 200 status line is sent without a page and a 500 response follows it.
C1_PresetPage ==
    IsPresetRequest =>
        LET rendered ==
              /\ QR_AVAILABLE
              /\ RequestedPreset.keys = AllKeys
              /\ (path_exists(outDir, int(Remainder)) \/ Encodable(RequestedPreset.text))
        IN IF ~rendered THEN resp.status = 500 /\ Len(responses) = 1
           ELSE IF PresetEncodes(RequestedPreset)
                THEN Served /\ ShowsPreset(resp.body, RequestedPreset)
                ELSE CutShort

\* A preset page served with the image encoded inline, its artifact missing.
C1_Witness ==
    /\ IsPresetRequest
    /\ ~path_exists(outDir, int(Remainder))
    /\ resp.status = 200
    /\ resp.body.img.kind = "data"
    /\ ShowsPreset(resp.body, RequestedPreset)

----------------------------------------------------------------------------
\* C2: on a server whose encoding library is installed, a /qr/ request whose
\* remainder is all decimal digits with a value >= N is answered 404, and one
\* whose remainder is neither "custom" nor all decimal digits is answered 400;
\* neither is answered 200 or 500.
C2_AsStated ==
    (IsQrRequest /\ QR_AVAILABLE) =>
        /\ (IntParses(Remainder) /\ Loaded /\ int(Remainder) >= PresetCount)
              => resp.status = 404
        /\ (Remainder # Custom /\ ~IntParses(Remainder))
              => resp.status = 400

----------------------------------------------------------------------------
\* C3 as the specification states it: GET /qr/custom with a non-empty text
\* parameter T is answered 200 with a page showing T under the name
\* "Custom QR Code" and the color "#666666" with the image inline, and with
\* the parameter missing or empty it is answered 400 "Missing text parameter".
C3_AsStated ==
    (IsQrRequest /\ Remainder = Custom) =>
        IF TextParameter # <<>>
        THEN /\ resp.status = 200
             /\ resp.body = QrPage(TextParameter, "Custom QR Code", "#666666",
                                   ImageData(TextParameter))
        ELSE resp.status = 400 /\ resp.message = "Missing text parameter"

\* C3: when the encoding library is installed, GET /qr/custom whose first
\* text parameter decodes to a non-empty T that fits a QR symbol is answered
\* 200 with a page showing T under the name "Custom QR Code" and the color
\* "#666666" with the image inline, whatever the artifact directory holds;
\* with the parameter missing or empty it is answered 400 "Missing text
\* parameter".
C3_CustomPage ==
    (IsQrRequest /\ Remainder = Custom /\ QR_AVAILABLE) =>
        /\ (TextParameter # <<>> /\ Encodable(TextParameter)) =>
              /\ resp.status = 200
              /\ resp.body = QrPage(TextParameter, "Custom QR Code", "#666666",
                                    ImageData(TextParameter))
        /\ (TextParameter = <<>>) =>
              resp.status = 400 /\ resp.message = "Missing text parameter"

\* A custom page for a percent-encoded text, served while qr_0.png exists.
C3_Witness ==
    /\ IsQrRequest /\ Remainder = Custom
    /\ request = QrPrefix \o Custom \o qTextPct
    /\ path_exists(outDir, 0)
    /\ resp.status = 200
    /\ resp.body.text = <<"A">>
    /\ resp.body.img = ImageData(<<"A">>)

----------------------------------------------------------------------------
\* C4 as the specification states it: once the server listens, GET /qr/i for
\* an index whose generation succeeded references the file qr_i.png, which
\* exists, and GET /qr/i for a preset index whose generation failed or whose
\* file is missing is answered 200 with an inline image.
C4_AsStated ==
    (pc = "Listening" /\ IsQrRequest /\ IntParses(Remainder)) =>
        LET index == int(Remainder) IN
        /\ index \in generated =>
              /\ path_exists(outDir, index)
              /\ resp.status = 200
              /\ resp.body.img = ImageUrl(index)
        /\ ( /\ Loaded /\ index < PresetCount
             /\ (index \notin generated \/ ~path_exists(outDir, index)) ) =>
              /\ resp.status = 200
              /\ resp.body.img.kind = "data"

\* C4: once the server listens, qr_i.png exists for every index i whose
\* generation succeeded; and GET /qr/i for an index whose entry in the data
\* file has its name, text and color is answered 200 with a reference to
\* /qr-images/qr_i.png and no inline image when that file exists, with 200
\* and the image encoded inline when the file is missing and the text fits a
\* QR symbol, and with 500 when the file is missing and the text does not
\* fit; in the first two cases, when a string of the entry cannot be encoded
\* as UTF-8, the 200 status line is sent without a page and a 500 response
\* follows it.
C4_ArtifactOrFallback ==
    pc = "Listening" =>
        /\ \A index \in generated : path_exists(outDir, index)
        /\ (IsPresetRequest /\ QR_AVAILABLE /\ RequestedPreset.keys = AllKeys) =>
              LET index == int(Remainder) IN
              IF path_exists(outDir, index)
              THEN IF PresetEncodes(RequestedPreset)
                   THEN Served /\ resp.body.img = ImageUrl(index)
                   ELSE CutShort
              ELSE IF Encodable(RequestedPreset.text)
                   THEN IF PresetEncodes(RequestedPreset)
                        THEN Served /\ resp.body.img = ImageData(RequestedPreset.text)
                        ELSE CutShort
                   ELSE resp.status = 500 /\ Len(responses) = 1

\* A preset whose generation succeeded, served by reference to its file.
C4_Witness ==
    /\ pc = "Listening"
    /\ IsPresetRequest
    /\ int(Remainder) \in generated
    /\ resp.status = 200
    /\ resp.body.img = ImageUrl(int(Remainder))

----------------------------------------------------------------------------
\* C5: every response sent, on every route and with every status, carries
\* the three Access-Control-Allow-* headers.
C5_CorsOnEveryResponse ==
    \A k \in DOMAIN responses : CorsHeaders \subseteq responses[k].headers

\* An error response of the static file server.
C5_Witness ==
    /\ Handled
    /\ handler = "super.do_GET"
    /\ resp.status = 404
    /\ CorsHeaders \subseteq resp.headers

----------------------------------------------------------------------------
\* Pre-generation has returned and main has not yet gone on.
PreGenReturned == pc = "PreGeneratingArtifacts" /\ step = "returned"

\* The preset indices of the data file the run found.
PresetIndices ==
    IF Loaded THEN 0..(PresetCount - 1) ELSE {}

Indices(dir) == {f.index : f \in dir.files}

----------------------------------------------------------------------------
\* The target names the selector page: /generator or /generator/, whatever
\* the query string.
IsGeneratorRequest ==
    PathOnly = GeneratorPath \/ PathOnly = GeneratorPath \o <<"/">>

\* C7: a target with the prefix /qr/ goes to the encoded-image renderer;
\* otherwise /generator, with or without a trailing slash and whatever the
\* query string, goes to the selector page renderer; every other request goes
\* unmodified to the static file server.
C7_AsStated ==
    Handled =>
        IF startswith(request, QrPrefix) THEN handler = "handle_qr_request"
        ELSE IF IsGeneratorRequest THEN handler = "serve_qr_generator_page"
        ELSE handler = "super.do_GET"

----------------------------------------------------------------------------
\* C8: a failure on one entry never aborts the batch: when the loop is left,
\* every entry of the loaded sequence has had its generation attempted.
C8_AsStated ==
    (PreGenReturned /\ outcome \in {"aborted", "completed"}) =>
        attempted = 0..(Len(qr_data.qrCodes) - 1)

----------------------------------------------------------------------------
\* What holds of the process in every state: it binds and listens only after
\* pre-generation has returned, and it is Crashed only for missing required
\* files, before pre-generation, or for a failed bind, after it.
StartupOrder ==
    /\ pc \in {"Binding", "Listening"} => (step = "none" /\ outcome # "none")
    /\ Handled => (pc = "Listening" /\ outcome # "none")
    /\ pc = "Initializing" => outcome = "none"
    /\ pc = "Crashed" =>
          \/ exit = "missing_files" /\ outcome = "none"
          \/ exit = "bind_failed" /\ outcome # "none"

\* C9: the listener accepts connections only after pre-generation has
\* returned; whatever the outcome of pre-generation the process goes on from
\* it to bind the listener, never to Crashed, and a listener that binds is
\* Listening; Crashed is entered only for missing required files or a failed
\* bind.
C9_ListenAfterPreGeneration ==
    /\ []StartupOrder
    /\ [][pc = "PreGeneratingArtifacts"
            => pc' \in {"PreGeneratingArtifacts", "Binding"}]_vars
    /\ [][pc = "Binding" => pc' \in {"Listening", "Crashed"}]_vars
    /\ [][(pc # "Crashed" /\ pc' = "Crashed")
            => (pc \in {"Initializing", "Binding"} /\ outcome' = outcome)]_vars

\* The server listening after a pre-generation whose cleanup failed.
C9_Witness ==
    /\ pc = "Listening"
    /\ outcome = "cleanup_failed"
    /\ Handled

----------------------------------------------------------------------------
\* C10: while the data file is missing or corrupt, GET /generator and
\* GET /qr/<digits> are answered 500.
C10_AsStated ==
    ( /\ Handled
      /\ dataFile.kind \in {"missing", "corrupt"}
      /\ \/ handler = "serve_qr_generator_page"
         \/ IsQrRequest /\ IntParses(Remainder) )
    => resp.status = 500

----------------------------------------------------------------------------
\* C11: every request handled by the /qr/ and /generator routes gets exactly
\* one response status; once the 200 status line and headers of a page have
\* been sent, no error response follows for the same request.
C11_AsStated ==
    (Handled /\ handler \in {"handle_qr_request", "serve_qr_generator_page"}) =>
        /\ Len(responses) = 1
        /\ \A k \in DOMAIN responses :
              responses[k].status = 200 =>
                 \A j \in DOMAIN responses : j > k => responses[j].status < 400

====
